---- MODULE Spec2Model ----
(***************************************************************************)
(* Huffman codec of src/huffman.py: bytes_fre, Node.build, Node.encode and *)
(* Node.decode.                                                            *)
(*                                                                         *)
(* Representation.  A bytes object is a sequence of byte values, so the    *)
(* dictionary key int_to_bytes(n) is <<n>> and b'OVO' is <<79, 86, 79>>.   *)
(* A str codeword is a sequence of character values in which '0' is 0 and  *)
(* '1' is 1; the three characters of 'OVO' keep their code points 79, 86,  *)
(* 79, which sort after both digits as they do in Python.  A dict is a     *)
(* sequence of entries in insertion order.  A Node is a record; leaf marks *)
(* "lchild is None and rchild is None".                                    *)
(***************************************************************************)
EXTENDS Integers, Sequences, FiniteSets, TLC

VARIABLES pc, str_bytes, fre_dic, node_lst, huffman_dic, built_dic, enc, dec

vars == <<pc, str_bytes, fre_dic, node_lst, huffman_dic, built_dic, enc, dec>>

(* ---------------------------- bounds ----------------------------------- *)
NumSym == 4
MaxLen == 6
MaxWeight == 3
NumHandSym == 3
MaxCodeLen == 2
MaxHandLen == 2
MaxPacked == 1

(* the byte values the inputs are drawn from: b'A', b'B', ...              *)
Symbols == 65 .. (64 + NumSym)
HandSymbols == 65 .. (64 + NumHandSym)

(* ---------------------------- helpers ---------------------------------- *)
SeqsUpTo(S, n) == UNION {[1..k -> S] : k \in 0..n}

int_to_bytes(n) == <<n>>

OVO == <<79, 86, 79>>

(* dict operations on a sequence of [key, val] entries in insertion order  *)
DictHas(d, k) == \E i \in 1..Len(d) : d[i].key = k

DictGet(d, k) == d[CHOOSE i \in 1..Len(d) : d[i].key = k].val

DictSet(d, k, v) ==
    IF DictHas(d, k)
    THEN [i \in 1..Len(d) |-> IF d[i].key = k THEN [key |-> k, val |-> v] ELSE d[i]]
    ELSE Append(d, [key |-> k, val |-> v])

DictKeys(d) == {d[i].key : i \in 1..Len(d)}

(* bytes_fre: count every byte value, keep the non-zero ones in ascending  *)
(* byte order                                                              *)
Count(s, x) == Cardinality({i \in 1..Len(s) : s[i] = x})

(* the comprehension of line 19 visits x = 0..255 in ascending order and   *)
(* keeps the x whose count is not 0; FreFrom steps from one kept x to the  *)
(* next                                                                    *)
RECURSIVE FreFrom(_, _)
FreFrom(s, x) ==
    LET kept == {y \in x..255 : Count(s, y) # 0}
    IN  IF kept = {} THEN <<>>
        ELSE LET m == CHOOSE y \in kept : \A z \in kept : y <= z
             IN  <<[key |-> int_to_bytes(m), val |-> Count(s, m)]>> \o FreFrom(s, m + 1)

bytes_fre(bytes_str) == FreFrom(bytes_str, 0)

(* ---------------------------- Node.build ------------------------------- *)
Leaf(value, weight) == [leaf |-> TRUE, value |-> value, weight |-> weight]

Inner(weight, lchild, rchild) ==
    [leaf |-> FALSE, weight |-> weight, lchild |-> lchild, rchild |-> rchild]

(* list.sort(key=weight, reverse=True): stable, descending                 *)
RECURSIVE SortByWeightDesc(_)
SortByWeightDesc(lst) ==
    IF Len(lst) = 0 THEN <<>>
    ELSE LET x == lst[Len(lst)]
             rest == SortByWeightDesc(SubSeq(lst, 1, Len(lst) - 1))
         IN  SelectSeq(rest, LAMBDA n : n.weight >= x.weight) \o <<x>>
             \o SelectSeq(rest, LAMBDA n : n.weight < x.weight)

BuildNodes(fre) == [i \in 1..Len(fre) |-> Leaf(fre[i].key, fre[i].val)]

(* variant: the merged node stays where append put it                      *)
ReinsertAtEnd(lst, index, node_add) == [lst EXCEPT ![index] = node_add]

(* the inner while loop of lines 60-64; index is 1-based here              *)
RECURSIVE Reinsert(_, _, _)
Reinsert(lst, index, node_add) ==
    IF index > 1 /\ lst[index - 1].weight <= node_add.weight
    THEN Reinsert([lst EXCEPT ![index] = lst[index - 1]], index - 1, node_add)
    ELSE [lst EXCEPT ![index] = node_add]

MergedNode(node_1, node_2) == Inner(node_1.weight + node_2.weight, node_1, node_2)

(* one iteration of the while loop of lines 53-64                          *)
MergeStep(lst) ==
    LET n == Len(lst)
        node_2 == lst[n]
        node_1 == lst[n - 1]
        node_add == MergedNode(node_1, node_2)
        appended == Append(SubSeq(lst, 1, n - 2), node_add)
    IN  Reinsert(appended, Len(appended), node_add)

(* variant: the right subtree gets the same bit as the left one            *)
RECURSIVE dlrSameBit(_, _, _)
dlrSameBit(current, huffman_code, dic) ==
    IF current.leaf
    THEN DictSet(dic, current.value, huffman_code)
    ELSE dlrSameBit(current.rchild, Append(huffman_code, 0),
                    dlrSameBit(current.lchild, Append(huffman_code, 0), dic))

RECURSIVE dlr(_, _, _)
dlr(current, huffman_code, dic) ==
    IF current.leaf
    THEN DictSet(dic, current.value, huffman_code)
    ELSE dlr(current.rchild, Append(huffman_code, 1),
             dlr(current.lchild, Append(huffman_code, 0), dic))

EmptyCodes(fre) == [i \in 1..Len(fre) |-> [key |-> fre[i].key, val |-> <<>>]]

SingleCode(fre) == [i \in 1..Len(fre) |-> [key |-> fre[i].key, val |-> <<0>>]]

(* ---------------------------- Node.encode ------------------------------ *)
(* int(s, 2) on a string of binary digits                                  *)
RECURSIVE BinToInt(_)
BinToInt(s) ==
    IF Len(s) = 0 THEN 0
    ELSE 2 * BinToInt(SubSeq(s, 1, Len(s) - 1)) + s[Len(s)]

(* the while loop of lines 85-87; st = [bin_buffer, write_buffer]          *)
RECURSIVE FlushBytes(_)
FlushBytes(st) ==
    IF Len(st.bin_buffer) >= 8
    THEN FlushBytes([bin_buffer |-> SubSeq(st.bin_buffer, 9, Len(st.bin_buffer)),
                     write_buffer |-> Append(st.write_buffer,
                                             BinToInt(SubSeq(st.bin_buffer, 1, 8)))])
    ELSE st

(* variant: the last byte is filled with '1'                               *)
LjustOne(s) == s \o [i \in 1..(8 - Len(s)) |-> 1]

(* str.ljust(8, '0')                                                       *)
LjustZero(s) == s \o [i \in 1..(8 - Len(s)) |-> 0]

(* lines 90-95                                                             *)
EncodeReturn(st) ==
    IF Len(st.bin_buffer) # 0
    THEN [status |-> "ok",
          packed |-> Append(st.write_buffer, BinToInt(LjustZero(st.bin_buffer))),
          padding |-> 8 - Len(st.bin_buffer)]
    ELSE [status |-> "ok", packed |-> st.write_buffer, padding |-> 0]

(* variant: a symbol with no entry is skipped                              *)
RECURSIVE EncodeLoopSkip(_, _, _, _)
EncodeLoopSkip(read_buffer, i, dic, st) ==
    IF i > Len(read_buffer) THEN EncodeReturn(st)
    ELSE IF ~DictHas(dic, read_buffer[i])
         THEN EncodeLoopSkip(read_buffer, i + 1, dic, st)
         ELSE EncodeLoopSkip(read_buffer, i + 1, dic,
                             FlushBytes([bin_buffer |-> st.bin_buffer \o DictGet(dic, read_buffer[i]),
                                         write_buffer |-> st.write_buffer]))

(* the for loop of lines 83-87 from item i on; huffman_dic[item] raises    *)
(* KeyError for a missing key and the call ends there                      *)
RECURSIVE EncodeLoop(_, _, _, _)
EncodeLoop(read_buffer, i, dic, st) ==
    IF i > Len(read_buffer) THEN EncodeReturn(st)
    ELSE IF ~DictHas(dic, read_buffer[i])
         THEN [status |-> "error", kind |-> "KeyError", at |-> i]
         ELSE EncodeLoop(read_buffer, i + 1, dic,
                         FlushBytes([bin_buffer |-> st.bin_buffer \o DictGet(dic, read_buffer[i]),
                                     write_buffer |-> st.write_buffer]))

encode(data, dic) ==
    EncodeLoop([i \in 1..Len(data) |-> int_to_bytes(data[i])], 1, dic,
               [bin_buffer |-> <<>>, write_buffer |-> <<>>])

(* ---------------------------- Node.decode ------------------------------ *)
(* lines 101-104: the dictionary object after the first branch             *)
DecodeDict(dic) == IF Len(dic) = 1 THEN DictSet(dic, OVO, OVO) ELSE dic

(* str comparison a < b                                                    *)
RECURSIVE StrLess(_, _)
StrLess(a, b) ==
    IF Len(b) = 0 THEN FALSE
    ELSE IF Len(a) = 0 THEN TRUE
    ELSE IF a[1] # b[1] THEN a[1] < b[1]
    ELSE StrLess(Tail(a), Tail(b))

(* the sort key (len(weight), weight): x sorts strictly before y           *)
KeyLess(x, y) ==
    \/ Len(x.weight) < Len(y.weight)
    \/ Len(x.weight) = Len(y.weight) /\ StrLess(x.weight, y.weight)

(* list.sort(key=(len(weight), weight)): stable, ascending                 *)
RECURSIVE SortByCode(_)
SortByCode(lst) ==
    IF Len(lst) = 0 THEN <<>>
    ELSE LET x == lst[Len(lst)]
             rest == SortByCode(SubSeq(lst, 1, Len(lst) - 1))
         IN  SelectSeq(rest, LAMBDA n : ~KeyLess(x, n)) \o <<x>>
             \o SelectSeq(rest, LAMBDA n : KeyLess(x, n))

DecodeNodes(dic) == [i \in 1..Len(dic) |-> Leaf(dic[i].key, dic[i].val)]

(* variant: the two merged nodes change sides                              *)
CodeMergedSwapped(node_1, node_2) ==
    [leaf |-> FALSE, weight |-> IF Len(node_1.weight) = 0 THEN node_1.weight
                                ELSE SubSeq(node_1.weight, 1, Len(node_1.weight) - 1),
     lchild |-> node_2, rchild |-> node_1]

(* weight[:-1:]                                                            *)
DropLast(w) == IF Len(w) = 0 THEN w ELSE SubSeq(w, 1, Len(w) - 1)

CodeMergedNode(node_1, node_2) == Inner(DropLast(node_1.weight), node_1, node_2)

(* the while loop of lines 109-116                                         *)
RECURSIVE Rebuild(_)
Rebuild(lst) ==
    IF Len(lst) > 1
    THEN LET n == Len(lst)
             node_2 == lst[n]
             node_1 == lst[n - 1]
         IN  Rebuild(SortByCode(Append(SubSeq(lst, 1, n - 2),
                                       CodeMergedNode(node_1, node_2))))
    ELSE lst

(* variant: least significant digit first                                  *)
ByteBitsLsb(item) == [i \in 1..8 |-> (item \div (2 ^ (i - 1))) % 2]

(* dic[item] of line 120: the 8 binary digits of a byte, most significant  *)
(* first                                                                   *)
ByteBits(item) == [i \in 1..8 |-> (item \div (2 ^ (8 - i))) % 2]

RECURSIVE AllBits(_)
AllBits(bytes) ==
    IF Len(bytes) = 0 THEN <<>> ELSE ByteBits(Head(bytes)) \o AllBits(Tail(bytes))

(* the slice s[lo:hi] of a list, with Python's handling of a negative or   *)
(* too large bound                                                         *)
PyIndex(n, k) == IF k < 0 THEN (IF n + k < 0 THEN 0 ELSE n + k) ELSE (IF k > n THEN n ELSE k)

PySlice(s, lo, hi) == SubSeq(s, PyIndex(Len(s), lo) + 1, PyIndex(Len(s), hi))

(* variant: every item of read_buffer is visited, whatever buffer_size is  *)
VisitedAll(read_buffer, pos, buffer_size) == read_buffer

(* lines 131-132: the items the two for loops visit, in order              *)
RECURSIVE Visited(_, _, _)
Visited(read_buffer, pos, buffer_size) ==
    IF pos < buffer_size
    THEN PySlice(read_buffer, pos, pos + 8) \o Visited(read_buffer, pos + 8, buffer_size)
    ELSE <<>>

(* lines 134-141 for each visited item; w = [current, write_buffer]        *)
WalkStep(root, w, item) ==
    LET next == IF item # 0 THEN w.current.rchild ELSE w.current.lchild
    IN  IF next.leaf
        THEN [current |-> root, write_buffer |-> w.write_buffer \o next.value]
        ELSE [current |-> next, write_buffer |-> w.write_buffer]

RECURSIVE Walk(_, _, _)
Walk(root, w, items) ==
    IF Len(items) = 0 THEN w
    ELSE Walk(root, WalkStep(root, w, Head(items)), Tail(items))

(* lines 105-143 on a non-empty dictionary                                 *)
decode(bytes, dic, padding) ==
    LET root == Rebuild(SortByCode(DecodeNodes(dic)))[1]
        bits == AllBits(bytes)
        buffer_size == 8 * Len(bytes) - padding
        read_buffer == PySlice(bits, 0, buffer_size)
        items == Visited(read_buffer, 0, buffer_size)
        w == Walk(root, [current |-> root, write_buffer |-> <<>>], items)
    IN  [status |-> "ok", out |-> w.write_buffer, tree |-> root,
         walked |-> Len(items), current |-> w.current,
         packed |-> bytes, padding |-> padding]

(* ---------------------------- state machine ---------------------------- *)
NoEnc == [status |-> "none"]
NoDec == [status |-> "none"]

Data == SeqsUpTo(Symbols, MaxLen)

Init ==
    /\ pc = "init"
    /\ str_bytes \in Data
    /\ fre_dic = <<>>
    /\ node_lst = <<>>
    /\ huffman_dic = <<>>
    /\ built_dic = <<>>
    /\ enc = NoEnc
    /\ dec = NoDec

BytesFre ==
    /\ pc = "init"
    /\ fre_dic' = bytes_fre(str_bytes)
    /\ pc' = "fre"
    /\ UNCHANGED <<str_bytes, node_lst, huffman_dic, built_dic, enc, dec>>

BuildEarly ==
    /\ pc = "fre"
    /\ Len(fre_dic) <= 1
    /\ huffman_dic' = SingleCode(fre_dic)
    /\ built_dic' = huffman_dic'
    /\ pc' = "built"
    /\ UNCHANGED <<str_bytes, fre_dic, node_lst, enc, dec>>

BuildStart ==
    /\ pc = "fre"
    /\ Len(fre_dic) > 1
    /\ node_lst' = SortByWeightDesc(BuildNodes(fre_dic))
    /\ pc' = "merge"
    /\ UNCHANGED <<str_bytes, fre_dic, huffman_dic, built_dic, enc, dec>>

BuildMerge ==
    /\ pc = "merge"
    /\ Len(node_lst) > 1
    /\ node_lst' = MergeStep(node_lst)
    /\ UNCHANGED <<pc, str_bytes, fre_dic, huffman_dic, built_dic, enc, dec>>

BuildFinish ==
    /\ pc = "merge"
    /\ ~(Len(node_lst) > 1)
    /\ huffman_dic' = dlr(node_lst[1], <<>>, EmptyCodes(fre_dic))
    /\ built_dic' = huffman_dic'
    /\ pc' = "built"
    /\ UNCHANGED <<str_bytes, fre_dic, node_lst, enc, dec>>

NextBuild == BuildEarly \/ BuildStart \/ BuildMerge \/ BuildFinish

(* a call encode(data, huffman_dic)                                        *)
EncodeCall(data) ==
    /\ pc = "built"
    /\ str_bytes' = data
    /\ enc' = encode(data, huffman_dic)
    /\ UNCHANGED <<pc, fre_dic, node_lst, huffman_dic, built_dic>>

(* a call decode(bytes, huffman_dic, padding)                              *)
DecodeCall(bytes, padding) ==
    /\ pc = "built"
    /\ IF Len(huffman_dic) = 0
       THEN /\ dec' = [status |-> "ok", out |-> <<>>, walked |-> 0,
                       packed |-> bytes, padding |-> padding]
            /\ UNCHANGED huffman_dic
       ELSE /\ huffman_dic' = DecodeDict(huffman_dic)
            /\ dec' = decode(bytes, huffman_dic', padding)
    /\ UNCHANGED <<pc, fre_dic, node_lst, built_dic>>

Encode ==
    /\ EncodeCall(str_bytes)
    /\ UNCHANGED dec

Decode ==
    /\ enc.status = "ok"
    /\ DecodeCall(enc.packed, enc.padding)
    /\ UNCHANGED <<str_bytes, enc>>

Next == BytesFre \/ NextBuild \/ Encode \/ Decode

Spec == Init /\ [][Next]_vars

(* ------------------- build on any frequency map ------------------------ *)
(* the caller's frequency map: distinct keys over Symbols in any insertion *)
(* order, counts 1..MaxWeight                                              *)
Distinct(q) == \A i, j \in 1..Len(q) : q[i] = q[j] => i = j

InitBuild ==
    /\ pc = "fre"
    /\ str_bytes = <<>>
    /\ \E k \in 0..NumSym :
         \E p \in [1..k -> Symbols], w \in [1..k -> 1..MaxWeight] :
            /\ Distinct(p)
            /\ fre_dic = [i \in 1..k |-> [key |-> int_to_bytes(p[i]), val |-> w[i]]]
    /\ node_lst = <<>>
    /\ huffman_dic = <<>>
    /\ built_dic = <<>>
    /\ enc = NoEnc
    /\ dec = NoDec

SpecBuild == InitBuild /\ [][NextBuild]_vars

(* ------------------- calls on a table the caller supplies -------------- *)
IsPrefix(a, b) == Len(a) <= Len(b) /\ SubSeq(b, 1, Len(a)) = a

PrefixFree(S) == \A a, b \in S : a # b => ~IsPrefix(a, b)

HandCodes == SeqsUpTo({0, 1}, MaxCodeLen) \ {<<>>}

HandCodeSets ==
    {S \in SUBSET HandCodes : Cardinality(S) \in 1..NumHandSym /\ PrefixFree(S)}

(* the elements of a set of codewords in (length, value) order             *)
RECURSIVE CodeSeq(_)
CodeSeq(S) ==
    IF S = {} THEN <<>>
    ELSE LET m == CHOOSE a \in S : \A b \in S \ {a} :
                      Len(a) < Len(b) \/ (Len(a) = Len(b) /\ StrLess(a, b))
         IN  <<m>> \o CodeSeq(S \ {m})

HandTable(S) ==
    LET c == CodeSeq(S)
    IN  [i \in 1..Len(c) |-> [key |-> int_to_bytes(64 + i), val |-> c[i]]]

HandTables == {HandTable(S) : S \in HandCodeSets}

HandData == SeqsUpTo(HandSymbols, MaxHandLen)

HandBytes == {0, 64, 160, 255}

HandPacked == SeqsUpTo(HandBytes, MaxPacked)

PadArgs == (0 - 1) .. (8 * MaxPacked + 1)

InitHand ==
    /\ pc = "built"
    /\ str_bytes = <<>>
    /\ fre_dic = <<>>
    /\ node_lst = <<>>
    /\ huffman_dic \in HandTables
    /\ built_dic = huffman_dic
    /\ enc = NoEnc
    /\ dec = NoDec

(* the caller encodes some data with the table                             *)
EncodeHand ==
    /\ enc = NoEnc
    /\ dec = NoDec
    /\ \E data \in HandData : EncodeCall(data)
    /\ UNCHANGED dec

(* the caller decodes what encode returned                                 *)
DecodeBack ==
    /\ enc.status = "ok"
    /\ dec = NoDec
    /\ DecodeCall(enc.packed, enc.padding)
    /\ UNCHANGED <<str_bytes, enc>>

(* the caller decodes a stream and a padding of its own                    *)
DecodeHand ==
    /\ enc = NoEnc
    /\ dec = NoDec
    /\ \E bytes \in HandPacked, padding \in PadArgs : DecodeCall(bytes, padding)
    /\ UNCHANGED <<str_bytes, enc>>

(* the caller drops the results and goes on with the same table object     *)
Forget ==
    /\ enc # NoEnc \/ dec # NoDec
    /\ str_bytes' = <<>>
    /\ enc' = NoEnc
    /\ dec' = NoDec
    /\ UNCHANGED <<pc, fre_dic, node_lst, huffman_dic, built_dic>>

NextHand == EncodeHand \/ DecodeBack \/ DecodeHand \/ Forget

SpecHand == InitHand /\ [][NextHand]_vars

(* ---------------------------- properties ------------------------------- *)
IsBits(c) == \A i \in 1..Len(c) : c[i] \in {0, 1}

DictEntries(d) == {<<d[i].key, d[i].val>> : i \in 1..Len(d)}

(* a CodeTable of the data model: distinct keys, non-empty codes of bits   *)
IsCodeTable(d) ==
    /\ \A i, j \in 1..Len(d) : d[i].key = d[j].key => i = j
    /\ \A i \in 1..Len(d) : Len(d[i].val) > 0 /\ IsBits(d[i].val)

PrefixFreeTable(d) ==
    \A i, j \in 1..Len(d) : i # j => ~IsPrefix(d[i].val, d[j].val)

MaxCode(d) == CHOOSE m \in {Len(d[i].val) : i \in 1..Len(d)} :
                  \A i \in 1..Len(d) : Len(d[i].val) <= m

RECURSIVE KraftSum(_, _, _)
KraftSum(d, i, m) ==
    IF i > Len(d) THEN 0 ELSE 2 ^ (m - Len(d[i].val)) + KraftSum(d, i + 1, m)

(* the codeword lengths fill the code space: sum of 2^-len is 1            *)
CompleteTable(d) == Len(d) > 0 /\ KraftSum(d, 1, MaxCode(d)) = 2 ^ MaxCode(d)

(* the leaves of a tree, each with its root-to-leaf path                   *)
RECURSIVE LeafPaths(_, _)
LeafPaths(node, path) ==
    IF node.leaf THEN {<<node.value, path>>}
    ELSE LeafPaths(node.lchild, Append(path, 0)) \cup LeafPaths(node.rchild, Append(path, 1))

RECURSIVE LeafSum(_)
LeafSum(node) ==
    IF node.leaf THEN node.weight ELSE LeafSum(node.lchild) + LeafSum(node.rchild)

RECURSIVE CodeStream(_, _)
CodeStream(data, d) ==
    IF Len(data) = 0 THEN <<>>
    ELSE DictGet(d, <<Head(data)>>) \o CodeStream(Tail(data), d)

(* the bits of a byte sequence read most significant bit first             *)
RECURSIVE MsbFirst(_)
MsbFirst(bytes) ==
    IF Len(bytes) = 0 THEN <<>>
    ELSE LET b == Head(bytes)
         IN  <<(b \div 128) % 2, (b \div 64) % 2, (b \div 32) % 2, (b \div 16) % 2,
               (b \div 8) % 2, (b \div 4) % 2, (b \div 2) % 2, b % 2>> \o MsbFirst(Tail(bytes))

Zeros(n) == [i \in 1..n |-> 0]

Descending(lst) == \A i \in 1..(Len(lst) - 1) : lst[i].weight >= lst[i + 1].weight

RemoveAt(lst, j) == SubSeq(lst, 1, j - 1) \o SubSeq(lst, j + 1, Len(lst))

(* C1: round trip.  Decoding what encode returned for s, with the table    *)
(* build(bytes_fre(s)) and the padding encode returned, gives exactly s.   *)
RoundTrip == dec.status = "ok" => dec.out = str_bytes

RoundTripWitness ==
    /\ dec.status = "ok"
    /\ Len(huffman_dic) = 4
    /\ \E i \in 1..Len(huffman_dic) : Len(huffman_dic[i].val) = 3
    /\ Len(enc.packed) >= 2
    /\ dec.out = str_bytes

EncodedFormat ==
    enc.status = "ok" =>
        LET stream == CodeStream(str_bytes, huffman_dic)
        IN  /\ enc.padding \in 0..7
            /\ (Len(stream) % 8 = 0 => enc.padding = 0)
            /\ 8 * Len(enc.packed) - enc.padding = Len(stream)
            /\ MsbFirst(enc.packed) = stream \o Zeros(enc.padding)

EncodedFormatWitness ==
    /\ enc.status = "ok"
    /\ Len(enc.packed) >= 2
    /\ enc.padding > 0
    /\ \E i \in 1..Len(enc.packed) : enc.packed[i] # 0

(* C4: for a frequency map with two or more symbols the table build        *)
(* returns has one non-empty codeword of bits per symbol of the map and no *)
(* codeword is a prefix of another symbol's codeword.                      *)
BuildPrefixFree ==
    (pc = "built" /\ Len(fre_dic) >= 2) =>
        /\ Len(huffman_dic) = Len(fre_dic)
        /\ DictKeys(huffman_dic) = DictKeys(fre_dic)
        /\ IsCodeTable(huffman_dic)
        /\ PrefixFreeTable(huffman_dic)

BuildPrefixFreeWitness ==
    /\ pc = "built"
    /\ Len(fre_dic) = 4
    /\ \E i \in 1..Len(huffman_dic) : Len(huffman_dic[i].val) = 3
    /\ \E i \in 1..Len(huffman_dic) : Len(huffman_dic[i].val) = 1

(* C5 as claimed: with a table of exactly one entry whose code is one bit  *)
(* ('0' or '1') and data made of that symbol only, decode of what encode   *)
(* returned gives exactly data (so the placeholder is never emitted).      *)
SingleEntryRoundTrip ==
    (/\ enc.status = "ok"
     /\ dec.status = "ok"
     /\ Len(built_dic) = 1
     /\ Len(built_dic[1].val) = 1)
    => dec.out = str_bytes

(* C6 as claimed: the table build returned keeps exactly its entries over  *)
(* any sequence of encode and decode calls that are given it.              *)
TableImmutable == pc = "built" => huffman_dic = built_dic

(* C7: when data has a symbol with no entry in the table, encode ends in   *)
(* an error at the first such symbol and returns no (packed, padding);     *)
(* otherwise it returns.                                                   *)
UnknownSymbol ==
    enc.status # "none" =>
        LET unknown == {i \in 1..Len(str_bytes) : ~DictHas(built_dic, <<str_bytes[i]>>)}
        IN  IF unknown # {}
            THEN /\ enc.status = "error"
                 /\ \A i \in unknown : enc.at <= i
                 /\ enc.at \in unknown
                 /\ DOMAIN enc \cap {"packed", "padding"} = {}
            ELSE enc.status = "ok"

UnknownSymbolWitness ==
    /\ enc.status = "error"
    /\ enc.at = 2
    /\ Len(str_bytes) = 2
    /\ DictHas(built_dic, <<str_bytes[1]>>)

(* C8 as claimed: a decode whose walk consumed its last content bit away   *)
(* from the root does not return a normal result.                          *)
TruncatedRejected ==
    ~(/\ dec.status = "ok"
      /\ dec.walked > 0
      /\ dec.current # dec.tree)

BadPadding(d) == d.padding \notin 0..7 \/ d.padding >= 8 * Len(d.packed)

MergeOk ==
    /\ (pc = "fre" /\ pc' = "merge") => Descending(node_lst')
    /\ (pc = "merge" /\ pc' = "merge") =>
          LET n == Len(node_lst)
              node_2 == node_lst[n]
              node_1 == node_lst[n - 1]
          IN  /\ Descending(node_lst)
              /\ \A i \in 1..n : node_lst[i].weight >= node_1.weight
                                   \/ i = n
              /\ node_1.weight >= node_2.weight
              /\ Len(node_lst') = n - 1
              /\ \E j \in 1..(n - 1) :
                    /\ ~node_lst'[j].leaf
                    /\ node_lst'[j].weight = node_1.weight + node_2.weight
                    /\ node_lst'[j].weight = LeafSum(node_lst'[j])
                    /\ node_lst'[j].rchild = node_2
                    /\ node_lst'[j].lchild = node_1
                    /\ node_lst'[j].rchild.weight <= node_lst'[j].lchild.weight
                    /\ RemoveAt(node_lst', j) = SubSeq(node_lst, 1, n - 2)
              /\ Descending(node_lst')
    /\ (pc = "merge" /\ pc' = "built") => Len(node_lst) = 1

GreedyMerge == [][MergeOk]_vars

GreedyMergeWitness ==
    /\ pc = "merge"
    /\ Len(node_lst) = 1
    /\ ~node_lst[1].leaf
    /\ ~node_lst[1].lchild.leaf
    /\ node_lst[1].rchild.weight < node_lst[1].lchild.weight
====
